---- MODULE Spec2Model ----
(***************************************************************************)
(* Figma <-> Google Sheets reconciliation engine.                          *)
(*                                                                         *)
(*   utils/traverse.js  walkNodes                                          *)
(*   figma.js           getFrames, buildNodePatches                        *)
(*   sheets.js          getSheetMap                                        *)
(*   server.js          GET /figma-patches, POST /figma-export-pdf         *)
(*   utils/pdf.js       fetchPdfUrlsFromFigma, downloadPdfBuffer,          *)
(*                      mergePdfBuffers                                    *)
(*                                                                         *)
(* JavaScript strings are TLA+ strings; a document is an arena of nodes    *)
(* (a sequence indexed by position) whose children fields hold positions.  *)
(***************************************************************************)
EXTENDS Integers, Sequences, FiniteSets, TLC

VARIABLES
    targetPage,       \* config.figmaTargetPage
    pc,               \* where the request handler is
    rows,             \* GET: response.data.values of the Sheets API
    sheetMap,         \* GET: result of getSheetMap()
    fileJson,         \* result of fetchFigmaFile()
    frames,           \* result of getFrames(fileJson)
    patches,          \* GET: buildNodePatches(...).patches
    matchedFrameIds,  \* GET: buildNodePatches(...).matchedFrameIds
    body,             \* POST: req.body
    finalFrameIds,    \* POST: deduplicated export order
    pdfUrls,          \* POST: result of fetchPdfUrlsFromFigma
    downloads,        \* POST: state of each downloadPdfBuffer promise
    completed,        \* POST: history, the downloads in the order they completed
    pdfBuffers,       \* POST: values collected by Promise.all, by position
    merged,           \* POST: the buffers mergePdfBuffers consumed, in order
    response,         \* what res.json / res.send was called with
    env,              \* process.env, as config.js reads it
    root,             \* the node a direct call of walkNodes is given
    visited,          \* the nodes the callback of that call received, in order
    msg,              \* plugin: the message figma.ui.onmessage was given
    plugin,           \* plugin: i, successCount, failedCount, failedPatches
    characters,       \* plugin: the characters of the TEXT nodes of the open document
    posted,           \* plugin: the messages given to figma.ui.postMessage, in order
    applied           \* plugin: history, the patch indexes taken up, in order

vars == <<targetPage, pc, rows, sheetMap, fileJson, frames, patches, matchedFrameIds,
          body, finalFrameIds, pdfUrls, downloads, completed, pdfBuffers,
          merged, response, env, root, visited,
          msg, plugin, characters, posted, applied>>

-----------------------------------------------------------------------------
(* Bounds of the model.                                                    *)

\* nodes of a document below the DOCUMENT root
MaxNodes == 4
\* rows returned by the Sheets API
MaxRows == 3
\* length of req.body.frameIds
MaxReq == 2
\* length of msg.patches
MaxPatches == 3
\* frames of the document an export request reads
MaxFrames == 3

-----------------------------------------------------------------------------
(* JavaScript strings.                                                     *)

RECURSIVE TrimStart(_)
TrimStart(s) ==
    IF Len(s) > 0 /\ SubSeq(s, 1, 1) = " "
    THEN TrimStart(SubSeq(s, 2, Len(s)))
    ELSE s

RECURSIVE TrimEnd(_)
TrimEnd(s) ==
    IF Len(s) > 0 /\ SubSeq(s, Len(s), Len(s)) = " "
    THEN TrimEnd(SubSeq(s, 1, Len(s) - 1))
    ELSE s

\* String.prototype.trim
Trim(s) == TrimEnd(TrimStart(s))

Digits == <<"0", "1", "2", "3", "4", "5", "6", "7", "8", "9">>

IsDigit(c) == \E d \in 1..10 : Digits[d] = c

DigitValue(c) == (CHOOSE d \in 1..10 : Digits[d] = c) - 1

RECURSIVE NumericValue(_)
NumericValue(s) ==
    IF Len(s) = 0 THEN 0
    ELSE 10 * NumericValue(SubSeq(s, 1, Len(s) - 1))
         + DigitValue(SubSeq(s, Len(s), Len(s)))

\* A property key that is a canonical array index ("0", "7", "10"; not "07",
\* not "0-1"): OrdinaryOwnPropertyKeys lists these first, in numeric order.
\* Array indices go up to 2^32 - 2; keys of up to nine digits are decided
\* here, which covers every key of the model.
IsArrayIndex(s) ==
    /\ Len(s) > 0
    /\ Len(s) <= 9
    /\ \A i \in 1..Len(s) : IsDigit(SubSeq(s, i, i))
    /\ (Len(s) > 1 => SubSeq(s, 1, 1) # "0")

-----------------------------------------------------------------------------
(* Ordinary JavaScript objects used as string-keyed maps.  An object is    *)
(* the sequence of its own properties <<[key, value], ...>> in creation    *)
(* order; it inherits from Object.prototype.                               *)

EmptyObject == << >>

OwnKeys(obj) == [i \in 1..Len(obj) |-> obj[i].key]

HasOwn(obj, k) == \E i \in 1..Len(obj) : obj[i].key = k

OwnValue(obj, k) == obj[CHOOSE i \in 1..Len(obj) : obj[i].key = k].value

\* an assignment that leaves an existing property as it is
SetPropertyIfAbsent(obj, k, v) ==
    IF HasOwn(obj, k) THEN obj ELSE Append(obj, [key |-> k, value |-> v])

\* obj[k] = v : an existing property keeps its place, a new one goes last
SetProperty(obj, k, v) ==
    IF HasOwn(obj, k)
    THEN [i \in 1..Len(obj) |->
             IF obj[i].key = k THEN [key |-> k, value |-> v] ELSE obj[i]]
    ELSE Append(obj, [key |-> k, value |-> v])

\* Names every object inherits from Object.prototype (the ones the model's
\* documents can spell).  Their values are built-in functions: truthy, and
\* without any of the record fields.
ObjectPrototypeKeys == {"constructor", "toString", "valueOf", "hasOwnProperty"}

\* What obj[k] evaluates to: "own", "inherited" or "undefined"
Lookup(obj, k) ==
    IF HasOwn(obj, k) THEN "own"
    ELSE IF k \in ObjectPrototypeKeys THEN "inherited"
    ELSE "undefined"

RECURSIVE InsertByNumber(_, _)
InsertByNumber(sorted, k) ==
    IF sorted = << >> THEN <<k>>
    ELSE IF NumericValue(k) < NumericValue(Head(sorted))
         THEN <<k>> \o sorted
         ELSE <<Head(sorted)>> \o InsertByNumber(Tail(sorted), k)

RECURSIVE SortByNumber(_)
SortByNumber(ks) ==
    IF ks = << >> THEN << >>
    ELSE InsertByNumber(SortByNumber(SubSeq(ks, 1, Len(ks) - 1)), ks[Len(ks)])

\* Object.keys(obj): array-index keys in ascending numeric order, then the
\* other string keys in creation order.
ObjectKeys(obj) ==
    SortByNumber(SelectSeq(OwnKeys(obj), IsArrayIndex))
    \o SelectSeq(OwnKeys(obj), LAMBDA k : ~IsArrayIndex(k))

-----------------------------------------------------------------------------
(* sheets.js                                                               *)

\* cell || ''   (a cell missing from a short row is undefined)
CellOrEmpty(row, i) == IF i <= Len(row) THEN row[i] ELSE ""

\* a loop that leaves the field of a missing cell undefined
RECURSIVE SheetMapLoopUndefinedCells(_, _, _)
SheetMapLoopUndefinedCells(rowSeq, i, map) ==
    IF i > Len(rowSeq) THEN map
    ELSE LET row == rowSeq[i]
             cellOf == [company |-> 1, productName |-> 2, shippingFee |-> 3,
                        supplyPriceVat |-> 4, groupPrice |-> 5, onlinePrice |-> 6]
         IN
         IF Len(row) < 2 THEN SheetMapLoopUndefinedCells(rowSeq, i + 1, map)
         ELSE IF Trim(row[2]) = "" THEN SheetMapLoopUndefinedCells(rowSeq, i + 1, map)
         ELSE SheetMapLoopUndefinedCells(rowSeq, i + 1,
                  SetProperty(map, Trim(row[2]),
                      [f \in { g \in DOMAIN cellOf : cellOf[g] <= Len(row) } |->
                           IF f = "productName" THEN Trim(row[2])
                           ELSE row[cellOf[f]]]))

RECURSIVE SheetMapLoop(_, _, _)
SheetMapLoop(rowSeq, i, map) ==
    IF i > Len(rowSeq) THEN map
    ELSE LET row == rowSeq[i] IN
         IF Len(row) < 2 THEN SheetMapLoop(rowSeq, i + 1, map)
         ELSE IF Trim(row[2]) = "" THEN SheetMapLoop(rowSeq, i + 1, map)
         ELSE SheetMapLoop(rowSeq, i + 1,
                  SetProperty(map, Trim(row[2]),
                      [company        |-> CellOrEmpty(row, 1),
                       productName    |-> Trim(row[2]),
                       shippingFee    |-> CellOrEmpty(row, 3),
                       supplyPriceVat |-> CellOrEmpty(row, 4),
                       groupPrice     |-> CellOrEmpty(row, 5),
                       onlinePrice    |-> CellOrEmpty(row, 6)]))

\* getSheetMap, given response.data.values
GetSheetMap(rowSeq) == SheetMapLoop(rowSeq, 1, EmptyObject)

-----------------------------------------------------------------------------
(* utils/traverse.js                                                       *)

\* A null node reference
NullNode == 0

\* The nodes walkNodes(doc[i], callback) hands to callback, in call order.
RECURSIVE WalkNodes(_, _)
RECURSIVE WalkChildren(_, _, _)
\* a walk that calls back after the children
WalkNodesPostOrder(doc, i) ==
    IF i = NullNode THEN << >>
    ELSE WalkChildren(doc, doc[i].children, 1) \o <<i>>

WalkNodes(doc, i) ==
    IF i = NullNode THEN << >>
    ELSE <<i>> \o WalkChildren(doc, doc[i].children, 1)

WalkChildren(doc, kids, k) ==
    IF k > Len(kids) THEN << >>
    ELSE WalkNodes(doc, kids[k]) \o WalkChildren(doc, kids, k + 1)

-----------------------------------------------------------------------------
(* figma.js : getFrames                                                    *)

\* the object getFrames pushes for a FRAME node; node is a reference into
\* the document, not a copy
FrameOf(doc, i) == [id |-> doc[i].id, name |-> doc[i].name, node |-> i]

\* a scan that does not report a frame lying inside a frame it reported
RECURSIVE CollectOutermostFrames(_, _, _, _)
CollectOutermostFrames(doc, visit, k, acc) ==
    IF k > Len(visit) THEN acc
    ELSE CollectOutermostFrames(doc, visit, k + 1,
             IF /\ doc[visit[k]].type = "FRAME"
                /\ \A a \in 1..Len(acc) :
                      \A j \in 1..Len(WalkNodes(doc, acc[a].node)) :
                          WalkNodes(doc, acc[a].node)[j] # visit[k]
             THEN Append(acc, FrameOf(doc, visit[k]))
             ELSE acc)

\* the callback of the full scan and of findFramesInPage, applied to the
\* nodes of one walk in order
RECURSIVE CollectFrames(_, _, _, _)
CollectFrames(doc, visit, k, acc) ==
    IF k > Len(visit) THEN acc
    ELSE CollectFrames(doc, visit, k + 1,
             IF doc[visit[k]].type = "FRAME"
             THEN Append(acc, FrameOf(doc, visit[k]))
             ELSE acc)

FindFramesInPage(doc, pageNode, acc) ==
    CollectFrames(doc, WalkNodes(doc, pageNode), 1, acc)

\* the callback of the page search: acc is [found, frames]
RECURSIVE SearchTargetPage(_, _, _, _, _)
SearchTargetPage(doc, visit, k, targetPageName, acc) ==
    IF k > Len(visit) THEN acc
    ELSE SearchTargetPage(doc, visit, k + 1, targetPageName,
             IF doc[visit[k]].type = "CANVAS" /\ doc[visit[k]].name = targetPageName
             THEN [found  |-> TRUE,
                   frames |-> FindFramesInPage(doc, visit[k], acc.frames)]
             ELSE acc)

\* a getFrames without the fallback: no page of that name, no frame
GetFramesWithoutFallback(doc, targetPageName) ==
    IF targetPageName # ""
    THEN SearchTargetPage(doc, WalkNodes(doc, 1), 1, targetPageName,
                          [found |-> FALSE, frames |-> << >>]).frames
    ELSE CollectFrames(doc, WalkNodes(doc, 1), 1, << >>)

\* getFrames(fileJson) with config.figmaTargetPage = targetPageName
\* ("" stands for an unset, falsy target page)
GetFrames(doc, targetPageName) ==
    IF targetPageName # ""
    THEN LET r == SearchTargetPage(doc, WalkNodes(doc, 1), 1, targetPageName,
                                   [found |-> FALSE, frames |-> << >>])
         IN IF ~r.found
            THEN CollectFrames(doc, WalkNodes(doc, 1), 1, r.frames)
            ELSE r.frames
    ELSE CollectFrames(doc, WalkNodes(doc, 1), 1, << >>)

-----------------------------------------------------------------------------
(* figma.js : buildNodePatches                                             *)

FIELD_MAP ==
    ("#product_name" :> "productName") @@
    ("#shipping_fee" :> "shippingFee") @@
    ("#supply_price_vat" :> "supplyPriceVat") @@
    ("#group_price" :> "groupPrice") @@
    ("#online_price" :> "onlinePrice")

\* Number.MAX_SAFE_INTEGER is 2^53 - 1; the model keeps the largest integer
\* TLC represents, which is likewise above every row index.
MAX_SAFE_INTEGER == 2147483647

\* for (const key of Object.keys(sheetMap)) sheetOrderMap.set(key.trim(), order++)
RECURSIVE SheetOrderLoop(_, _, _)
SheetOrderLoop(keys, order, map) ==
    IF order >= Len(keys) THEN map
    ELSE SheetOrderLoop(keys, order + 1,
                        SetProperty(map, Trim(keys[order + 1]), order))

SheetOrderMap(sheet) == SheetOrderLoop(ObjectKeys(sheet), 0, EmptyObject)

\* sheetOrderMap.get(frameName) ?? Number.MAX_SAFE_INTEGER
SheetIndex(sheetOrderMap, frameName) ==
    IF HasOwn(sheetOrderMap, frameName)
    THEN OwnValue(sheetOrderMap, frameName)
    ELSE MAX_SAFE_INTEGER

\* fieldName && row[fieldName] !== undefined, for row = sheetMap[frameName].
\* An inherited row (a built-in function) has none of the fields, and an
\* inherited FIELD_MAP entry names no field of any row.
FieldDefined(sheet, frameName, layerName) ==
    /\ layerName \in DOMAIN FIELD_MAP
    /\ Lookup(sheet, frameName) = "own"
    /\ FIELD_MAP[layerName] \in DOMAIN OwnValue(sheet, frameName)

\* the callback of the walk over one matched frame
RECURSIVE PatchNodes(_, _, _, _, _, _)
PatchNodes(doc, visit, k, sheet, frameName, acc) ==
    IF k > Len(visit) THEN acc
    ELSE LET node == doc[visit[k]] IN
         PatchNodes(doc, visit, k + 1, sheet, frameName,
             IF node.type # "TEXT" THEN acc
             ELSE IF FieldDefined(sheet, frameName, node.name)
             THEN Append(acc,
                      [nodeId    |-> node.id,
                       frameName |-> frameName,
                       layerName |-> node.name,
                       newText   |-> OwnValue(sheet, frameName)[FIELD_MAP[node.name]]])
             ELSE acc)

FrameNameRaw(frame) == frame.name

\* const frameName = frame.name.trim()
FrameName(frame) == Trim(frame.name)

\* a loop that ends at the first frame without record
RECURSIVE FrameLoopUntilUnmatched(_, _, _, _, _, _)
FrameLoopUntilUnmatched(doc, frameSeq, k, sheet, sheetOrderMap, acc) ==
    IF k > Len(frameSeq) THEN acc
    ELSE LET frame     == frameSeq[k]
             frameName == FrameName(frame)
         IN IF Lookup(sheet, frameName) = "undefined"
            THEN acc
            ELSE FrameLoopUntilUnmatched(doc, frameSeq, k + 1, sheet, sheetOrderMap,
                     [patches     |-> PatchNodes(doc, WalkNodes(doc, frame.node), 1,
                                                 sheet, frameName, acc.patches),
                      matchedMeta |-> Append(acc.matchedMeta,
                                          [frameId    |-> frame.id,
                                           frameName  |-> frameName,
                                           sheetIndex |-> SheetIndex(sheetOrderMap,
                                                                     frameName)])])

\* for (const frame of frames): acc is [patches, matchedMeta]
RECURSIVE FrameLoop(_, _, _, _, _, _)
FrameLoop(doc, frameSeq, k, sheet, sheetOrderMap, acc) ==
    IF k > Len(frameSeq) THEN acc
    ELSE LET frame     == frameSeq[k]
             frameName == FrameName(frame)
         IN IF Lookup(sheet, frameName) = "undefined"
            THEN FrameLoop(doc, frameSeq, k + 1, sheet, sheetOrderMap, acc)
            ELSE FrameLoop(doc, frameSeq, k + 1, sheet, sheetOrderMap,
                     [patches     |-> PatchNodes(doc, WalkNodes(doc, frame.node), 1,
                                                 sheet, frameName, acc.patches),
                      matchedMeta |-> Append(acc.matchedMeta,
                                          [frameId    |-> frame.id,
                                           frameName  |-> frameName,
                                           sheetIndex |-> SheetIndex(sheetOrderMap,
                                                                     frameName)])])

\* (a, b) => a.sheetIndex - b.sheetIndex
CompareMeta(a, b) == a.sheetIndex - b.sheetIndex

\* an unstable insertion: the element goes before the elements it ties with
RECURSIVE InsertMetaBeforeEqual(_, _)
InsertMetaBeforeEqual(sorted, m) ==
    IF sorted = << >> THEN <<m>>
    ELSE IF CompareMeta(Head(sorted), m) >= 0
         THEN <<m>> \o sorted
         ELSE <<Head(sorted)>> \o InsertMetaBeforeEqual(Tail(sorted), m)

\* Array.prototype.sort is stable: an element goes after every element that
\* does not compare greater than it.
RECURSIVE InsertMeta(_, _)
InsertMeta(sorted, m) ==
    IF sorted = << >> THEN <<m>>
    ELSE IF CompareMeta(Head(sorted), m) > 0
         THEN <<m>> \o sorted
         ELSE <<Head(sorted)>> \o InsertMeta(Tail(sorted), m)

RECURSIVE SortMeta(_)
SortMeta(metas) ==
    IF metas = << >> THEN << >>
    ELSE InsertMeta(SortMeta(SubSeq(metas, 1, Len(metas) - 1)), metas[Len(metas)])

\* the frames reordered by the rank of their names
RECURSIVE InsertFrameByRank(_, _, _)
InsertFrameByRank(sorted, f, sheetOrderMap) ==
    IF sorted = << >> THEN <<f>>
    ELSE IF SheetIndex(sheetOrderMap, FrameName(Head(sorted)))
            > SheetIndex(sheetOrderMap, FrameName(f))
         THEN <<f>> \o sorted
         ELSE <<Head(sorted)>> \o InsertFrameByRank(Tail(sorted), f, sheetOrderMap)

RECURSIVE FramesByRank(_, _)
FramesByRank(frameSeq, sheetOrderMap) ==
    IF frameSeq = << >> THEN << >>
    ELSE InsertFrameByRank(
             FramesByRank(SubSeq(frameSeq, 1, Len(frameSeq) - 1), sheetOrderMap),
             frameSeq[Len(frameSeq)], sheetOrderMap)

\* a buildNodePatches that emits the patches in the order of the ranking
BuildNodePatchesInRankOrder(doc, frameSeq, sheet) ==
    LET r      == FrameLoop(doc, FramesByRank(frameSeq, SheetOrderMap(sheet)), 1,
                            sheet, SheetOrderMap(sheet),
                            [patches |-> << >>, matchedMeta |-> << >>])
        sorted == SortMeta(r.matchedMeta)
    IN [patches         |-> r.patches,
        matchedFrameIds |-> [i \in 1..Len(sorted) |-> sorted[i].frameId]]

\* buildNodePatches(frames, sheetMap); doc is the document the frames' node
\* references point into
BuildNodePatches(doc, frameSeq, sheet) ==
    LET r      == FrameLoop(doc, frameSeq, 1, sheet, SheetOrderMap(sheet),
                            [patches |-> << >>, matchedMeta |-> << >>])
        sorted == SortMeta(r.matchedMeta)
    IN [patches         |-> r.patches,
        matchedFrameIds |-> [i \in 1..Len(sorted) |-> sorted[i].frameId]]

-----------------------------------------------------------------------------
(* figma.js, earlier revision : buildNodePatches returning the patch list  *)

EARLIER_FIELD_MAP ==
    ("#product_name" :> "productName") @@
    ("#shipping_fee" :> "shippingFee") @@
    ("#supply_price_vat" :> "supplyPriceVat") @@
    ("#group_price" :> "groupPrice") @@
    ("#online_price" :> "onlinePrice")

\* the callback of walkNodes(frame.node, ...): a TEXT node whose name has a
\* field in the map, defined on row = sheetMap[frameName], gives a patch
RECURSIVE EarlierPatchNodes(_, _, _, _, _, _)
EarlierPatchNodes(doc, visit, k, sheet, frameName, acc) ==
    IF k > Len(visit) THEN acc
    ELSE LET node == doc[visit[k]]
             defined == /\ node.name \in DOMAIN EARLIER_FIELD_MAP
                        /\ Lookup(sheet, frameName) = "own"
                        /\ EARLIER_FIELD_MAP[node.name]
                               \in DOMAIN OwnValue(sheet, frameName)
         IN EarlierPatchNodes(doc, visit, k + 1, sheet, frameName,
                IF node.type = "TEXT" /\ defined
                THEN Append(acc,
                         [nodeId    |-> node.id,
                          frameName |-> frameName,
                          layerName |-> node.name,
                          newText   |-> OwnValue(sheet, frameName)
                                            [EARLIER_FIELD_MAP[node.name]]])
                ELSE acc)

\* for (const frame of frames): acc is patches
RECURSIVE EarlierFrameLoop(_, _, _, _, _)
EarlierFrameLoop(doc, frameSeq, k, sheet, acc) ==
    IF k > Len(frameSeq) THEN acc
    ELSE LET frameName == Trim(frameSeq[k].name) IN
         IF Lookup(sheet, frameName) = "undefined"
         THEN EarlierFrameLoop(doc, frameSeq, k + 1, sheet, acc)
         ELSE EarlierFrameLoop(doc, frameSeq, k + 1, sheet,
                  EarlierPatchNodes(doc, WalkNodes(doc, frameSeq[k].node), 1,
                                    sheet, frameName, acc))

\* buildNodePatches(frames, sheetMap) of the earlier revision
EarlierBuildNodePatches(doc, frameSeq, sheet) ==
    EarlierFrameLoop(doc, frameSeq, 1, sheet, << >>)

-----------------------------------------------------------------------------
(* Inputs: the documents the Figma REST API can return.  The root is the   *)
(* DOCUMENT node, its children are the pages (CANVAS), everything below a  *)
(* page is a FRAME, a TEXT (always a leaf) or a GROUP.  Node ids are       *)
(* unique; a node's id is its position in the arena.                       *)

Label(t, n) == [type |-> t, name |-> n]

RootOnly ==
    << [id |-> 1, type |-> "DOCUMENT", name |-> "Document", children |-> << >>] >>

AddChild(doc, p, label) ==
    Append([doc EXCEPT ![p].children = Append(@, Len(doc) + 1)],
           [id |-> Len(doc) + 1, type |-> label.type, name |-> label.name,
            children |-> << >>])

Extend(docs, pageLabels, deepLabels) ==
    { AddChild(t[1], t[2], t[3]) :
        t \in { u \in docs \X (1..(MaxNodes + 1)) \X (pageLabels \cup deepLabels) :
                  /\ u[2] <= Len(u[1])
                  /\ u[1][u[2]].type # "TEXT"
                  /\ (u[3] \in pageLabels) <=> (u[2] = 1) } }

\* the documents with at most n nodes below the root
RECURSIVE DocsUpTo(_, _, _)
DocsUpTo(n, pageLabels, deepLabels) ==
    IF n = 0 THEN {RootOnly}
    ELSE LET smaller == DocsUpTo(n - 1, pageLabels, deepLabels)
         IN smaller \cup Extend(smaller, pageLabels, deepLabels)

-----------------------------------------------------------------------------
(* Inputs of the specification of GET /figma-patches.                      *)

PageLabels == { Label("CANVAS", "P") }

DeepLabels ==
    { Label("FRAME", "A "), Label("FRAME", "B"), Label("FRAME", "constructor"),
      Label("TEXT", "#shipping_fee"), Label("TEXT", "#x"),
      Label("GROUP", "#shipping_fee") }

Documents == DocsUpTo(MaxNodes, PageLabels, DeepLabels)

RowA == <<"co", "A", "4,000">>
RowB == <<"co", " B">>

SheetRows == { <<RowA, RowB>>, <<RowB, RowA>>, <<RowA>> }

TargetPages == {"P"}

-----------------------------------------------------------------------------
(* Figma plugin (code.ts) : figma.ui.onmessage, 'apply-patches'            *)

\* The document open in Figma: nodes 1 and 2 are TEXT nodes, node 3 is a
\* FRAME; no other id names a node (figma.getNodeById returns null).
LiveDocument ==
    (1 :> [type |-> "TEXT"]) @@ (2 :> [type |-> "TEXT"]) @@ (3 :> [type |-> "FRAME"])

LiveCharacters == (1 :> "old") @@ (2 :> "old")

NoMsg == [type |-> "", patches |-> << >>]

NoPlugin ==
    [i |-> 0, successCount |-> 0, failedCount |-> 0, failedPatches |-> << >>]

\* log(text, type): the message type is 'log' for info, 'log-<type>' else
Log(type) == [type |-> IF type = "info" THEN "log" ELSE "log-" \o type]

\* the catch block of one patch; the loop goes on with the next index
CatchPatchError(st, patch, error) ==
    [st EXCEPT !.failedCount = @ + 1,
               !.failedPatches = Append(@, [patch |-> patch, error |-> error]),
               !.posted = Append(@, Log("error")),
               !.i = @ + 1]

RECURSIVE LogFailedPatches(_, _)
LogFailedPatches(postedSoFar, n) ==
    IF n = 0 THEN postedSoFar
    ELSE LogFailedPatches(Append(postedSoFar, Log("error")), n - 1)

\* after the loop: the summary logs, then the one 'done' message
PostDone(st) ==
    LET summary == st.posted \o <<Log("info"), Log("info"), Log("success")>>
        failures == IF st.failedCount > 0
                    THEN LogFailedPatches(
                             summary \o <<Log("error"), Log("info"), Log("error")>>,
                             Len(st.failedPatches))
                    ELSE summary
    IN [st EXCEPT !.posted = Append(failures,
                                 [type    |-> "done",
                                  success |-> st.successCount,
                                  failed  |-> st.failedCount]),
                  !.pc = "returned"]

\* a loop that gives up at the first patch that fails
RECURSIVE RunLoopUntilFailure(_, _)
RunLoopUntilFailure(patchSeq, st) ==
    IF st.i > Len(patchSeq) \/ st.failedCount > 0 THEN PostDone(st)
    ELSE LET patch == patchSeq[st.i]
             taken == [st EXCEPT !.posted = Append(@, Log("info")),
                                 !.applied = Append(@, st.i)]
         IN IF patch.nodeId \notin DOMAIN LiveDocument
            THEN RunLoopUntilFailure(patchSeq, CatchPatchError(taken, patch, "not found"))
            ELSE IF LiveDocument[patch.nodeId].type # "TEXT"
            THEN RunLoopUntilFailure(patchSeq, CatchPatchError(taken, patch, "not TEXT"))
            ELSE [taken EXCEPT !.pc = "loadFontAsync"]

\* The for loop from index st.i (1-based) up to its next await or its end:
\* a patch whose node is missing or is no TEXT node fails without an await;
\* for a TEXT node both font branches await figma.loadFontAsync.
RECURSIVE RunLoop(_, _)
RunLoop(patchSeq, st) ==
    IF st.i > Len(patchSeq) THEN PostDone(st)
    ELSE LET patch == patchSeq[st.i]
             taken == [st EXCEPT !.posted = Append(@, Log("info")),
                                 !.applied = Append(@, st.i)]
         IN IF patch.nodeId \notin DOMAIN LiveDocument
            THEN RunLoop(patchSeq, CatchPatchError(taken, patch, "not found"))
            ELSE IF LiveDocument[patch.nodeId].type # "TEXT"
            THEN RunLoop(patchSeq, CatchPatchError(taken, patch, "not TEXT"))
            ELSE [taken EXCEPT !.pc = "loadFontAsync"]

\* no message was received
PluginIdle ==
    /\ msg = NoMsg
    /\ plugin = NoPlugin
    /\ characters = LiveCharacters
    /\ posted = << >>
    /\ applied = << >>

pluginVars == <<msg, plugin, characters, posted, applied>>

-----------------------------------------------------------------------------
(* server.js : GET /figma-patches                                          *)

NoResponse == [status |-> 0]

NoBody == [isArray |-> FALSE, frameIds |-> << >>]

InitWith(targetPages) ==
    /\ targetPage \in targetPages
    /\ pc = "idle"
    /\ rows = << >>
    /\ sheetMap = EmptyObject
    /\ fileJson = << >>
    /\ frames = << >>
    /\ patches = << >>
    /\ matchedFrameIds = << >>
    /\ body = NoBody
    /\ finalFrameIds = << >>
    /\ pdfUrls = << >>
    /\ downloads = << >>
    /\ completed = << >>
    /\ pdfBuffers = << >>
    /\ merged = << >>
    /\ response = NoResponse
    /\ env = [FIGMA_TARGET_PAGE |-> targetPage]
    /\ root = NullNode
    /\ visited = << >>
    /\ PluginIdle

\* what no request handler touches
auxVars == <<env, root, visited, msg, plugin, characters, posted, applied>>

exportVars ==
    <<body, finalFrameIds, pdfUrls, downloads, completed, pdfBuffers, merged>>

\* the request arrives; the handler awaits getSheetMap()
GetPatches ==
    /\ pc = "idle"
    /\ pc' = "getSheetMap"
    /\ UNCHANGED <<targetPage, rows, sheetMap, fileJson, frames, patches,
                   matchedFrameIds, response>>
    /\ UNCHANGED exportVars
    /\ UNCHANGED auxVars

\* getSheetMap() resolves; the handler awaits fetchFigmaFile()
SheetMapLoaded(rowSeqs) ==
    /\ pc = "getSheetMap"
    /\ \E rowSeq \in rowSeqs :
          /\ rows' = rowSeq
          /\ sheetMap' = GetSheetMap(rowSeq)
    /\ pc' = "fetchFigmaFile"
    /\ UNCHANGED <<targetPage, fileJson, frames, patches, matchedFrameIds,
                   response>>
    /\ UNCHANGED exportVars
    /\ UNCHANGED auxVars

\* fetchFigmaFile() resolves; the rest of the handler runs to res.json
FigmaFileLoaded(docs) ==
    /\ pc = "fetchFigmaFile"
    /\ \E doc \in docs :
          LET fr == GetFrames(doc, targetPage)
              r  == BuildNodePatches(doc, fr, sheetMap)
          IN /\ fileJson' = doc
             /\ frames' = fr
             /\ patches' = r.patches
             /\ matchedFrameIds' = r.matchedFrameIds
             /\ response' = [status          |-> 200,
                             count           |-> Len(r.patches),
                             patches         |-> r.patches,
                             matchedFrameIds |-> r.matchedFrameIds,
                             totalFrames     |-> Len(fr),
                             matchedCount    |-> Len(r.matchedFrameIds)]
    /\ pc' = "done"
    /\ UNCHANGED <<targetPage, rows, sheetMap>>
    /\ UNCHANGED exportVars
    /\ UNCHANGED auxVars

\* getSheetMap() or fetchFigmaFile() rejects: the catch block answers 500
GetPatchesFailed ==
    /\ pc \in {"getSheetMap", "fetchFigmaFile"}
    /\ response' = [status |-> 500, message |-> pc]
    /\ pc' = "done"
    /\ UNCHANGED <<targetPage, rows, sheetMap, fileJson, frames, patches,
                   matchedFrameIds>>
    /\ UNCHANGED exportVars
    /\ UNCHANGED auxVars

Init == InitWith(TargetPages)

Next ==
    \/ GetPatches
    \/ SheetMapLoaded(SheetRows)
    \/ FigmaFileLoaded(Documents)
    \/ GetPatchesFailed

Spec == Init /\ [][Next]_vars

-----------------------------------------------------------------------------
(* The same handler over a wide choice of sheets and a few documents.      *)

SeqsUpTo(S, n) == UNION { [1..k -> S] : k \in 0..n }

RowChoices ==
    { <<"co">>, <<"co", " ">>, <<"", "A">>, <<"co", "A ", "4,000">>,
      <<"co", "B">>, <<"co", "10">>, <<"co", "2">> }

AllSheetRows == SeqsUpTo(RowChoices, MaxRows)

\* page P > FRAME "A " > TEXT "#shipping_fee"
FrameAWithText ==
    AddChild(AddChild(AddChild(RootOnly, 1, Label("CANVAS", "P")),
                      2, Label("FRAME", "A ")),
             3, Label("TEXT", "#shipping_fee"))

SheetDocuments ==
    DocsUpTo(3, PageLabels, { Label("FRAME", "2"), Label("FRAME", "10") })
        \cup {FrameAWithText}

NextSheet ==
    \/ GetPatches
    \/ SheetMapLoaded(AllSheetRows)
    \/ FigmaFileLoaded(SheetDocuments)
    \/ GetPatchesFailed

SpecSheet == Init /\ [][NextSheet]_vars

-----------------------------------------------------------------------------
(* The same handler over documents with several pages; the target page    *)
(* "Q" names no page of any of them.                                       *)

PageTargets == {"P", "Q"}

PageDocuments ==
    DocsUpTo(MaxNodes,
             { Label("CANVAS", "P"), Label("CANVAS", "P ") },
             { Label("FRAME", "A "), Label("GROUP", "g") })

InitFrames == InitWith(PageTargets)

NextFrames ==
    \/ GetPatches
    \/ SheetMapLoaded({ <<RowA>> })
    \/ FigmaFileLoaded(PageDocuments)
    \/ GetPatchesFailed

SpecFrames == InitFrames /\ [][NextFrames]_vars

-----------------------------------------------------------------------------
(* server.js : POST /figma-export-pdf, utils/pdf.js                        *)

COVER_FRAME_NAME == "0-0"
TOC_FRAME_NAME == "0-1"
BACK_FRAME_NAME == "0-11"

\* null
NullId == 0

RECURSIVE FindLastFrameIdByName(_, _)
FindLastFrameIdByName(frameSeq, name) ==
    IF frameSeq = << >> THEN NullId
    ELSE IF Trim(frameSeq[Len(frameSeq)].name) = name
         THEN frameSeq[Len(frameSeq)].id
         ELSE FindLastFrameIdByName(SubSeq(frameSeq, 1, Len(frameSeq) - 1), name)

\* frames.find((fr) => fr.name.trim() === name), then f ? f.id : null
RECURSIVE FindFrameIdByName(_, _)
FindFrameIdByName(frameSeq, name) ==
    IF frameSeq = << >> THEN NullId
    ELSE IF Trim(Head(frameSeq).name) = name THEN Head(frameSeq).id
         ELSE FindFrameIdByName(Tail(frameSeq), name)

\* if (id) orderedIds.push(id)
PushIfFound(ids, id) == IF id # NullId THEN Append(ids, id) ELSE ids

\* a deduplication that keeps the last occurrence of an id
RECURSIVE KeepLastOccurrence(_)
KeepLastOccurrence(ids) ==
    IF ids = << >> THEN << >>
    ELSE IF \E i \in 2..Len(ids) : ids[i] = Head(ids)
         THEN KeepLastOccurrence(Tail(ids))
         ELSE <<Head(ids)>> \o KeepLastOccurrence(Tail(ids))

\* Array.from(new Set(ids)): a Set keeps each value at its first insertion
RECURSIVE ArrayFromSet(_)
ArrayFromSet(ids) ==
    IF ids = << >> THEN << >>
    ELSE LET before == ArrayFromSet(SubSeq(ids, 1, Len(ids) - 1))
             last   == ids[Len(ids)]
         IN IF \E i \in 1..Len(before) : before[i] = last
            THEN before
            ELSE Append(before, last)

\* steps 1 and 2 of the handler: the final order of the export
FinalFrameIds(frameSeq, requested) ==
    LET coverId == FindFrameIdByName(frameSeq, COVER_FRAME_NAME)
        tocId   == FindFrameIdByName(frameSeq, TOC_FRAME_NAME)
        backId  == FindFrameIdByName(frameSeq, BACK_FRAME_NAME)
    IN ArrayFromSet(
           PushIfFound(PushIfFound(PushIfFound(<< >>, coverId), tocId) \o requested,
                       backId))

\* the URL the Images API returns for a node, and the PDF behind a URL
UrlOf(id) == [url |-> id]
PdfOf(url) == [pdf |-> url.url]

\* a slot of Promise.all's result that no promise has filled yet
NoBuffer == [pdf |-> NullId]

\* the next value goes to the first free slot, in completion order
SettleInCompletionOrder(values, i, v) ==
    [values EXCEPT ![CHOOSE j \in 1..Len(values) :
                        /\ values[j] = NoBuffer
                        /\ \A h \in 1..(j - 1) : values[h] # NoBuffer] = v]

\* Promise.all stores the value of the i-th promise at index i
Settle(values, i, v) == [values EXCEPT ![i] = v]

\* mergePdfBuffers copies the pages of the buffers in array order
RECURSIVE MergePdfBuffers(_)
MergePdfBuffers(buffers) ==
    IF buffers = << >> THEN << >>
    ELSE <<Head(buffers)>> \o MergePdfBuffers(Tail(buffers))

getVars == <<rows, sheetMap, patches, matchedFrameIds>>

\* a handler that goes on to the document fetch whatever frameIds is
ExportPdfWithoutValidation(bodies) ==
    /\ pc = "idle"
    /\ \E b \in bodies :
          /\ body' = b
          /\ response' = response
          /\ pc' = "exportFetchFigmaFile"
    /\ UNCHANGED <<targetPage, fileJson, frames, finalFrameIds, pdfUrls,
                   downloads, completed, pdfBuffers, merged>>
    /\ UNCHANGED getVars
    /\ UNCHANGED auxVars

\* the request arrives: input validation, then the handler awaits
\* fetchFigmaFile() (finalFileKey is never empty: config.figmaFileKey is
\* a required setting)
ExportPdf(bodies) ==
    /\ pc = "idle"
    /\ \E b \in bodies :
          /\ body' = b
          /\ IF ~b.isArray \/ Len(b.frameIds) = 0
             THEN /\ response' = [status |-> 400]
                  /\ pc' = "done"
             ELSE /\ response' = response
                  /\ pc' = "exportFetchFigmaFile"
    /\ UNCHANGED <<targetPage, fileJson, frames, finalFrameIds, pdfUrls,
                   downloads, completed, pdfBuffers, merged>>
    /\ UNCHANGED getVars
    /\ UNCHANGED auxVars

\* fetchFigmaFile() resolves: getFrames, the three lookups and the final
\* order; the handler awaits fetchPdfUrlsFromFigma()
ExportFileLoaded(docs) ==
    /\ pc = "exportFetchFigmaFile"
    /\ \E doc \in docs :
          /\ fileJson' = doc
          /\ frames' = GetFrames(doc, targetPage)
          /\ finalFrameIds' = FinalFrameIds(GetFrames(doc, targetPage), body.frameIds)
    /\ pc' = "fetchPdfUrls"
    /\ UNCHANGED <<targetPage, body, pdfUrls, downloads, completed, pdfBuffers,
                   merged, response>>
    /\ UNCHANGED getVars
    /\ UNCHANGED auxVars

\* the Images API answers with a URL for every node of the file it was asked
\* for; frameIds.map throws on an id without URL.  Otherwise every download
\* is started at once (pdfUrls.map(downloadPdfBuffer)) and the handler
\* awaits Promise.all.  The handler reads fileJson and frames no more from
\* here on: the state keeps no value for them.
PdfUrlsLoaded ==
    /\ pc = "fetchPdfUrls"
    /\ IF \A i \in 1..Len(finalFrameIds) :
              \E n \in 1..Len(fileJson) : fileJson[n].id = finalFrameIds[i]
       THEN /\ pdfUrls' = [i \in 1..Len(finalFrameIds) |-> UrlOf(finalFrameIds[i])]
            /\ downloads' = [i \in 1..Len(finalFrameIds) |-> "pending"]
            /\ pdfBuffers' = [i \in 1..Len(finalFrameIds) |-> NoBuffer]
            /\ pc' = "downloading"
            /\ response' = response
       ELSE /\ response' = [status |-> 500, message |-> "fetchPdfUrls"]
            /\ pc' = "done"
            /\ UNCHANGED <<pdfUrls, downloads, pdfBuffers>>
    /\ fileJson' = << >>
    /\ frames' = << >>
    /\ UNCHANGED <<targetPage, body, finalFrameIds, completed, merged>>
    /\ UNCHANGED getVars
    /\ UNCHANGED auxVars

\* one downloadPdfBuffer resolves
DownloadDone ==
    /\ pc = "downloading"
    /\ \E i \in 1..Len(downloads) :
          /\ downloads[i] = "pending"
          /\ downloads' = [downloads EXCEPT ![i] = "done"]
          /\ completed' = Append(completed, i)
          /\ pdfBuffers' = Settle(pdfBuffers, i, PdfOf(pdfUrls[i]))
    /\ UNCHANGED <<targetPage, pc, fileJson, frames, body, finalFrameIds, pdfUrls,
                   merged, response>>
    /\ UNCHANGED getVars
    /\ UNCHANGED auxVars

\* every promise is fulfilled: Promise.all resolves and the handler awaits
\* mergePdfBuffers(pdfBuffers)
AllDownloaded ==
    /\ pc = "downloading"
    /\ \A i \in 1..Len(downloads) : downloads[i] = "done"
    /\ pc' = "merging"
    /\ UNCHANGED <<targetPage, fileJson, frames, body, finalFrameIds, pdfUrls,
                   downloads, completed, pdfBuffers, merged, response>>
    /\ UNCHANGED getVars
    /\ UNCHANGED auxVars

\* mergePdfBuffers resolves: the merged document is sent
Merged ==
    /\ pc = "merging"
    /\ merged' = MergePdfBuffers(pdfBuffers)
    /\ response' = [status |-> 200, pdf |-> MergePdfBuffers(pdfBuffers)]
    /\ pc' = "done"
    /\ UNCHANGED <<targetPage, fileJson, frames, body, finalFrameIds, pdfUrls,
                   downloads, completed, pdfBuffers>>
    /\ UNCHANGED getVars
    /\ UNCHANGED auxVars

\* a catch block that sends what was downloaded so far
ExportFailedSendingPartial ==
    /\ \/ pc \in {"exportFetchFigmaFile", "fetchPdfUrls", "merging"}
       \/ pc = "downloading" /\ \E i \in 1..Len(downloads) : downloads[i] = "pending"
    /\ response' = [status |-> 200, pdf |-> MergePdfBuffers(pdfBuffers)]
    /\ pc' = "done"
    /\ UNCHANGED <<targetPage, fileJson, frames, body, finalFrameIds, pdfUrls,
                   downloads, completed, pdfBuffers, merged>>
    /\ UNCHANGED getVars
    /\ UNCHANGED auxVars

\* fetchFigmaFile, fetchPdfUrlsFromFigma, one download or mergePdfBuffers
\* rejects: the catch block answers 500
ExportFailed ==
    /\ \/ pc \in {"exportFetchFigmaFile", "fetchPdfUrls", "merging"}
       \/ pc = "downloading" /\ \E i \in 1..Len(downloads) : downloads[i] = "pending"
    /\ response' = [status |-> 500, message |-> pc]
    /\ pc' = "done"
    /\ UNCHANGED <<targetPage, fileJson, frames, body, finalFrameIds, pdfUrls,
                   downloads, completed, pdfBuffers, merged>>
    /\ UNCHANGED getVars
    /\ UNCHANGED auxVars

(* Inputs of the specification of POST /figma-export-pdf: documents of one *)
(* page holding up to MaxFrames frames, requests for these frames and for  *)
(* a node the file does not hold.                                          *)

ExportFrameLabels ==
    { Label("FRAME", "0-0 "), Label("FRAME", "0-1"), Label("FRAME", "0-11"),
      Label("FRAME", "X") }

OnePage == AddChild(RootOnly, 1, Label("CANVAS", "P"))

RECURSIVE PagesOfFrames(_)
PagesOfFrames(n) ==
    IF n = 0 THEN {OnePage}
    ELSE LET smaller == PagesOfFrames(n - 1)
         IN smaller \cup { AddChild(t[1], 2, t[2]) :
                             t \in { u \in smaller \X ExportFrameLabels :
                                       Len(u[1]) = n + 1 } }

ExportDocuments == PagesOfFrames(MaxFrames)

\* the id of a node no document holds
UnknownId == MaxFrames + 3

RequestedIds == (3..(MaxFrames + 2)) \cup {UnknownId}

\* req.body: frameIds a list of up to MaxReq ids (the empty list among
\* them), frameIds missing, and frameIds a string
Bodies ==
    { [isArray |-> TRUE, frameIds |-> ids] : ids \in SeqsUpTo(RequestedIds, MaxReq) }
    \cup { NoBody, [isArray |-> FALSE, frameIds |-> <<3>>] }

NextExport ==
    \/ ExportPdf(Bodies)
    \/ ExportFileLoaded(ExportDocuments)
    \/ PdfUrlsLoaded
    \/ DownloadDone
    \/ AllDownloaded
    \/ Merged
    \/ ExportFailed

SpecExport == Init /\ [][NextExport]_vars

-----------------------------------------------------------------------------
(* Direct calls of the library functions, as index.js makes them: the      *)
(* inputs (document, record mapping, target page, root of the walk) are    *)
(* given at the start, walkNodes, getFrames and buildNodePatches are       *)
(* called one after the other.                                             *)

CallTargets == {"", "P"}

CallDocuments ==
    DocsUpTo(MaxNodes,
             { Label("CANVAS", "P"), Label("CANVAS", "Q") },
             { Label("FRAME", "A "), Label("FRAME", "B"),
               Label("TEXT", "#shipping_fee") })

InitCalls ==
    /\ targetPage \in CallTargets
    /\ pc = "idle"
    /\ rows = <<RowA, RowB>>
    /\ sheetMap = GetSheetMap(<<RowA, RowB>>)
    /\ fileJson \in CallDocuments
    /\ root \in 0..(MaxNodes + 1)
    /\ root <= Len(fileJson)
    /\ frames = << >>
    /\ patches = << >>
    /\ matchedFrameIds = << >>
    /\ body = NoBody
    /\ finalFrameIds = << >>
    /\ pdfUrls = << >>
    /\ downloads = << >>
    /\ completed = << >>
    /\ pdfBuffers = << >>
    /\ merged = << >>
    /\ response = NoResponse
    /\ env = [FIGMA_TARGET_PAGE |-> targetPage]
    /\ visited = << >>
    /\ PluginIdle

\* walkNodes(root, callback) with a callback that records its argument
WalkNodesCalled ==
    /\ pc = "idle"
    /\ visited' = WalkNodes(fileJson, root)
    /\ pc' = "walked"
    /\ UNCHANGED <<targetPage, rows, sheetMap, fileJson, frames, patches,
                   matchedFrameIds, response, env, root>>
    /\ UNCHANGED exportVars
    /\ UNCHANGED pluginVars

\* const frames = getFrames(fileJson)
GetFramesCalled ==
    /\ pc = "walked"
    /\ frames' = GetFrames(fileJson, targetPage)
    /\ pc' = "framesReturned"
    /\ UNCHANGED <<targetPage, rows, sheetMap, fileJson, patches,
                   matchedFrameIds, response, env, root, visited>>
    /\ UNCHANGED exportVars
    /\ UNCHANGED pluginVars

\* a call that sorts the frames array it was given, in place
BuildNodePatchesCalledSortingFrames ==
    /\ pc = "framesReturned"
    /\ patches' = BuildNodePatches(fileJson, frames, sheetMap).patches
    /\ matchedFrameIds' = BuildNodePatches(fileJson, frames, sheetMap).matchedFrameIds
    /\ frames' = FramesByRank(frames, SheetOrderMap(sheetMap))
    /\ pc' = "patchesReturned"
    /\ UNCHANGED <<targetPage, rows, sheetMap, fileJson, response,
                   env, root, visited>>
    /\ UNCHANGED exportVars
    /\ UNCHANGED pluginVars

\* buildNodePatches(frames, sheetMap)
BuildNodePatchesCalled ==
    /\ pc = "framesReturned"
    /\ patches' = BuildNodePatches(fileJson, frames, sheetMap).patches
    /\ matchedFrameIds' = BuildNodePatches(fileJson, frames, sheetMap).matchedFrameIds
    /\ pc' = "patchesReturned"
    /\ UNCHANGED <<targetPage, rows, sheetMap, fileJson, frames, response,
                   env, root, visited>>
    /\ UNCHANGED exportVars
    /\ UNCHANGED pluginVars

NextCalls ==
    \/ WalkNodesCalled
    \/ GetFramesCalled
    \/ BuildNodePatchesCalled

SpecCalls == InitCalls /\ [][NextCalls]_vars

-----------------------------------------------------------------------------
(* The server with both routes: a request is a GET /figma-patches or a     *)
(* POST /figma-export-pdf.                                                 *)

NextServer ==
    \/ GetPatches
    \/ SheetMapLoaded({ <<RowA>> })
    \/ FigmaFileLoaded(SheetDocuments)
    \/ GetPatchesFailed
    \/ ExportPdf(Bodies)
    \/ ExportFileLoaded(ExportDocuments)
    \/ PdfUrlsLoaded
    \/ DownloadDone
    \/ AllDownloaded
    \/ Merged
    \/ ExportFailed

SpecServer == Init /\ [][NextServer]_vars

-----------------------------------------------------------------------------
(* config.js : the process starts by building config from process.env;    *)
(* the server then serves GET /figma-patches.  The required variables      *)
(* (FIGMA_TOKEN, FIGMA_FILE_KEY, GOOGLE_SHEETS_ID) are set; a variable     *)
(* that is not set reads as "", falsy like undefined.                      *)

\* getEnv(key, defaultValue): << >> is the default null, <<d>> the default d
GetEnv(key, defaultValue) ==
    LET value == env[key] IN
    IF value = "" /\ defaultValue = << >>
    THEN [threw |-> TRUE, value |-> ""]
    ELSE [threw |-> FALSE,
          value |-> IF value # "" THEN value ELSE defaultValue[1]]

EnvTargetPages == {"", "P", "Q"}

InitConfig ==
    /\ env \in { [FIGMA_TARGET_PAGE |-> v] : v \in EnvTargetPages }
    /\ pc = "loadConfig"
    /\ targetPage = ""
    /\ rows = << >>
    /\ sheetMap = EmptyObject
    /\ fileJson = << >>
    /\ frames = << >>
    /\ patches = << >>
    /\ matchedFrameIds = << >>
    /\ body = NoBody
    /\ finalFrameIds = << >>
    /\ pdfUrls = << >>
    /\ downloads = << >>
    /\ completed = << >>
    /\ pdfBuffers = << >>
    /\ merged = << >>
    /\ response = NoResponse
    /\ root = NullNode
    /\ visited = << >>
    /\ PluginIdle

\* figmaTargetPage: getEnv('FIGMA_TARGET_PAGE', null); an exception thrown
\* while the module is evaluated ends the process
LoadConfig ==
    /\ pc = "loadConfig"
    /\ LET r == GetEnv("FIGMA_TARGET_PAGE", << >>) IN
          IF r.threw
          THEN /\ pc' = "configError"
               /\ targetPage' = targetPage
          ELSE /\ pc' = "idle"
               /\ targetPage' = r.value
    /\ UNCHANGED <<rows, sheetMap, fileJson, frames, patches, matchedFrameIds,
                   response>>
    /\ UNCHANGED exportVars
    /\ UNCHANGED auxVars

NextConfig ==
    \/ LoadConfig
    \/ GetPatches
    \/ SheetMapLoaded({ <<RowA>> })
    \/ FigmaFileLoaded(PageDocuments)
    \/ GetPatchesFailed

SpecConfig == InitConfig /\ [][NextConfig]_vars

-----------------------------------------------------------------------------
(* The plugin alone (specification SpecPlugin): one message, any outcome  *)
(* of each font load and each write.                                       *)

serverVars ==
    <<targetPage, rows, sheetMap, fileJson, frames, patches, matchedFrameIds,
      response, env, root, visited>>

\* the state of the handler as RunLoop threads it
LoopState(nextPc) ==
    [i             |-> plugin.i,
     successCount  |-> plugin.successCount,
     failedCount   |-> plugin.failedCount,
     failedPatches |-> plugin.failedPatches,
     posted        |-> posted,
     applied       |-> applied,
     pc            |-> nextPc]

LoopStateStored(st) ==
    /\ plugin' = [i             |-> st.i,
                  successCount  |-> st.successCount,
                  failedCount   |-> st.failedCount,
                  failedPatches |-> st.failedPatches]
    /\ posted' = st.posted
    /\ applied' = st.applied
    /\ pc' = st.pc

\* figma.ui.onmessage up to its first await or its return
OnMessage(msgs) ==
    /\ pc = "idle"
    /\ \E m \in msgs :
        /\ msg' = m
        /\ IF m.type # "apply-patches"
           THEN /\ pc' = "returned"
                /\ UNCHANGED <<plugin, posted, applied>>
           ELSE IF m.patches = << >>
           THEN /\ posted' = Append(posted, Log("error"))
                /\ pc' = "returned"
                /\ UNCHANGED <<plugin, applied>>
           ELSE LoopStateStored(
                    RunLoop(m.patches,
                            [LoopState("loop") EXCEPT
                                 !.i = 1,
                                 !.posted = Append(@, Log("info"))]))
    /\ UNCHANGED characters
    /\ UNCHANGED serverVars
    /\ UNCHANGED exportVars

\* figma.loadFontAsync settled (a rejection is caught and logged); then the
\* write of textNode.characters, which may throw; then the loop goes on to
\* its next await or its end
FontSettled ==
    /\ pc = "loadFontAsync"
    /\ \E loaded \in BOOLEAN, written \in BOOLEAN :
        LET patch == msg.patches[plugin.i]
            st == LoopState("loop")
            warned == IF loaded THEN st
                      ELSE [st EXCEPT !.posted = Append(@, Log("info"))]
        IN IF written
           THEN /\ characters' = [characters EXCEPT ![patch.nodeId] = patch.newText]
                /\ LoopStateStored(
                       RunLoop(msg.patches,
                               [warned EXCEPT !.successCount = @ + 1,
                                              !.posted = Append(@, Log("success")),
                                              !.i = @ + 1]))
           ELSE /\ UNCHANGED characters
                /\ LoopStateStored(
                       RunLoop(msg.patches,
                               CatchPatchError(warned, patch, "write failed")))
    /\ UNCHANGED msg
    /\ UNCHANGED serverVars
    /\ UNCHANGED exportVars

\* a patch as the server sends it; node 4 is not in the document
PluginPatch(nodeId, newText) ==
    [nodeId |-> nodeId, frameName |-> "A", layerName |-> "#shipping_fee",
     newText |-> newText]

PatchChoices ==
    { PluginPatch(1, "a"), PluginPatch(1, "b"), PluginPatch(2, "a"),
      PluginPatch(3, "a"), PluginPatch(4, "a") }

Msgs ==
    { [type |-> "apply-patches", patches |-> ps] :
          ps \in SeqsUpTo(PatchChoices, MaxPatches) }
    \cup { [type |-> "close", patches |-> << >>] }

NextPlugin ==
    \/ OnMessage(Msgs)
    \/ FontSettled

SpecPlugin == Init /\ [][NextPlugin]_vars

-----------------------------------------------------------------------------
(* Vocabulary of the properties.                                           *)

Range(seq) == { seq[i] : i \in 1..Len(seq) }

\* the handler answered 200 with a patch list
Answered == pc = "done" /\ response.status = 200

\* node n lies in the subtree rooted at node a (a itself included)
RECURSIVE InSubtree(_, _, _)
InSubtree(doc, a, n) ==
    \/ n = a
    \/ \E c \in Range(doc[a].children) : InSubtree(doc, c, n)

\* the frame's trimmed name is the key of a record of the sheet
MatchesRecord(frame) == \E i \in 1..Len(sheetMap) : sheetMap[i].key = Trim(frame.name)

RecordOf(frame) ==
    sheetMap[CHOOSE i \in 1..Len(sheetMap) : sheetMap[i].key = Trim(frame.name)].value

\* TEXT node n, in the subtree of frames[k], has a mapped name whose field
\* the record of frames[k] defines
Patchable(k, n) ==
    /\ MatchesRecord(frames[k])
    /\ fileJson[n].type = "TEXT"
    /\ InSubtree(fileJson, frames[k].node, n)
    /\ fileJson[n].name \in DOMAIN FIELD_MAP
    /\ FIELD_MAP[fileJson[n].name] \in DOMAIN RecordOf(frames[k])

PatchFor(k, n) ==
    [nodeId    |-> fileJson[n].id,
     frameName |-> Trim(frames[k].name),
     layerName |-> fileJson[n].name,
     newText   |-> RecordOf(frames[k])[FIELD_MAP[fileJson[n].name]]]

-----------------------------------------------------------------------------
(* C1: buildNodePatches emits a patch for a node exactly when the node is  *)
(* a TEXT node in the subtree of a frame whose trimmed name equals a       *)
(* record key, the node's name is a key of FIELD_MAP and the mapped field  *)
(* is defined on that record; the patch carries the node id, the trimmed   *)
(* frame name, the node name and the record's value of the mapped field.   *)
(* Every other node yields no patch.                                       *)
C1_PatchIffMappedTextInMatchedFrame ==
    Answered =>
        Range(patches) =
            { PatchFor(kn[1], kn[2]) :
                kn \in { u \in (1..Len(frames)) \X (1..Len(fileJson)) :
                           Patchable(u[1], u[2]) } }

\* a frame named "A " matched record A and its #shipping_fee leaf was
\* patched, while an unmapped TEXT leaf of the same frame was skipped
C1_Witness ==
    /\ Answered
    /\ \E k \in 1..Len(frames) :
          /\ frames[k].name = "A "
          /\ \E n \in 1..Len(fileJson) :
                /\ Patchable(k, n)
                /\ PatchFor(k, n) \in Range(patches)
                /\ PatchFor(k, n).newText = "4,000"
          /\ \E n \in 1..Len(fileJson) :
                /\ fileJson[n].type = "TEXT"
                /\ fileJson[n].name = "#x"
                /\ InSubtree(fileJson, frames[k].node, n)
                /\ \A i \in 1..Len(patches) : patches[i].nodeId # fileJson[n].id

-----------------------------------------------------------------------------
(* C2: for every frame sequence getFrames can produce (frames nested in    *)
(* frames included) and every matched frame F, each TEXT leaf of F's       *)
(* subtree with a mapped name and a defined field has exactly one patch    *)
(* with its node id in the output, and no other patch references it.       *)
C2_ExactlyOnePatchPerLeaf ==
    Answered =>
        \A k \in 1..Len(frames) : \A n \in 1..Len(fileJson) :
            Patchable(k, n) =>
                Cardinality({ i \in 1..Len(patches) :
                                patches[i].nodeId = fileJson[n].id }) = 1

-----------------------------------------------------------------------------
(* C3: matchedFrameIds holds the id of every frame whose trimmed name      *)
(* matched a record exactly once, and no id of a frame that matched no     *)
(* record.                                                                 *)
C3_MatchedIdsAreTheMatchedFrames ==
    Answered =>
        /\ \A k \in 1..Len(frames) :
              MatchesRecord(frames[k]) =>
                  Cardinality({ i \in 1..Len(matchedFrameIds) :
                                  matchedFrameIds[i] = frames[k].id }) = 1
        /\ \A i \in 1..Len(matchedFrameIds) :
              \E k \in 1..Len(frames) :
                  /\ frames[k].id = matchedFrameIds[i]
                  /\ MatchesRecord(frames[k])

-----------------------------------------------------------------------------
(* C4: matchedFrameIds is sorted ascending by the rank of each frame's     *)
(* name (the place of its record in the sheet order; the sentinel, above   *)
(* every rank, when the name has none), and two frames of equal rank keep  *)
(* the relative order they have in the input frame sequence.               *)

\* position of the frame with this id in the input frame sequence
FramePosition(id) == CHOOSE k \in 1..Len(frames) : frames[k].id = id

RankIndex(frame) ==
    IF \E i \in 1..Len(ObjectKeys(sheetMap)) :
           ObjectKeys(sheetMap)[i] = Trim(frame.name)
    THEN (CHOOSE i \in 1..Len(ObjectKeys(sheetMap)) :
              ObjectKeys(sheetMap)[i] = Trim(frame.name)) - 1
    ELSE MAX_SAFE_INTEGER

C4_MatchedIdsSortedByRankStable ==
    Answered =>
        \A i \in 1..Len(matchedFrameIds) : \A j \in 1..Len(matchedFrameIds) :
            i < j =>
                LET a == FramePosition(matchedFrameIds[i])
                    b == FramePosition(matchedFrameIds[j])
                IN \/ RankIndex(frames[a]) < RankIndex(frames[b])
                   \/ RankIndex(frames[a]) = RankIndex(frames[b]) /\ a < b

\* sheet [B, A], frames [A, A, B]: B's frame comes first, the two frames of
\* record A follow in their input order
C4_Witness ==
    /\ Answered
    /\ Len(frames) = 3
    /\ Trim(frames[1].name) = "A" /\ Trim(frames[2].name) = "A"
    /\ frames[3].name = "B"
    /\ ObjectKeys(sheetMap) = <<"B", "A">>
    /\ matchedFrameIds = <<frames[3].id, frames[1].id, frames[2].id>>

-----------------------------------------------------------------------------
(* C6: the patch sequence follows the frame extraction order and, within   *)
(* one frame, the pre-order of the frame's subtree; it is not reordered    *)
(* to follow the ranking of matchedFrameIds.                               *)

PatchesOfFrame(k) ==
    LET leaves == SelectSeq(WalkNodes(fileJson, frames[k].node),
                            LAMBDA n : Patchable(k, n))
    IN [i \in 1..Len(leaves) |-> PatchFor(k, leaves[i])]

RECURSIVE PatchesFromFrame(_)
PatchesFromFrame(k) ==
    IF k > Len(frames) THEN << >>
    ELSE PatchesOfFrame(k) \o PatchesFromFrame(k + 1)

C6_PatchesInExtractionOrder ==
    Answered => patches = PatchesFromFrame(1)

\* sheet [A, B], frames extracted [B, A]: the patch of B precedes the patch
\* of A while matchedFrameIds lists A's frame before B's
C6_Witness ==
    /\ Answered
    /\ Len(frames) = 2
    /\ frames[1].name = "B" /\ Trim(frames[2].name) = "A"
    /\ Len(patches) = 2
    /\ patches[1].frameName = "B" /\ patches[2].frameName = "A"
    /\ matchedFrameIds = <<frames[2].id, frames[1].id>>

-----------------------------------------------------------------------------
(* C5: the rank buildNodePatches gives a record is the position (0, 1,     *)
(* 2, ...) of the record's row in the rows of the sheet, for every set of  *)
(* distinct record names, names made of digits included.                   *)

\* every row yields a record and no two rows share a trimmed name
DistinctRecordRows ==
    /\ \A i \in 1..Len(rows) : Len(rows[i]) >= 2 /\ Trim(rows[i][2]) # ""
    /\ \A i \in 1..Len(rows) : \A j \in 1..Len(rows) :
          i # j => Trim(rows[i][2]) # Trim(rows[j][2])

C5_RankIsRowPosition ==
    (pc \in {"fetchFigmaFile", "done"} /\ DistinctRecordRows) =>
        \A i \in 1..Len(rows) :
            SheetIndex(SheetOrderMap(sheetMap), Trim(rows[i][2])) = i - 1

-----------------------------------------------------------------------------
(* C10: with a target page configured and a page of exactly that name in   *)
(* the document, getFrames returns the FRAME nodes of that one page's      *)
(* subtree, in pre-order, each once, and no frame of another page.         *)

IsTargetPage(n) ==
    fileJson[n].type = "CANVAS" /\ fileJson[n].name = targetPage

\* the nodes of this sequence that are frames, as getFrames reports them
FramesAmong(nodes) ==
    LET fs == SelectSeq(nodes, LAMBDA n : fileJson[n].type = "FRAME")
    IN [i \in 1..Len(fs) |-> FrameOf(fileJson, fs[i])]

C10_OnlyTheTargetPage ==
    (/\ Answered
     /\ targetPage # ""
     /\ \E p \in 1..Len(fileJson) : IsTargetPage(p)) =>
        \E p \in 1..Len(fileJson) :
            /\ IsTargetPage(p)
            /\ frames = FramesAmong(WalkNodes(fileJson, p))


-----------------------------------------------------------------------------
(* Properties of POST /figma-export-pdf (specification SpecExport).        *)

\* the handler has assembled the final order of a valid request
Assembled == body.isArray /\ fileJson # << >>

\* positions of the extracted frames whose trimmed name is name
PositionsNamed(name) ==
    { i \in 1..Len(frames) : Trim(frames[i].name) = name }

Located(name) == PositionsNamed(name) # {}

FirstNamed(name) ==
    frames[CHOOSE i \in PositionsNamed(name) :
               \A j \in PositionsNamed(name) : i <= j].id

Slot(name) == IF Located(name) THEN <<FirstNamed(name)>> ELSE << >>

\* [coverId?] ++ [tocId?] ++ requestedIds ++ [backId?]
WorkingSequence ==
    Slot(COVER_FRAME_NAME) \o Slot(TOC_FRAME_NAME) \o body.frameIds
        \o Slot(BACK_FRAME_NAME)

FirstOccurrence(seq, x) ==
    CHOOSE i \in 1..Len(seq) : seq[i] = x /\ \A j \in 1..(i - 1) : seq[j] # x

NoDuplicates(seq) ==
    \A i, j \in 1..Len(seq) : seq[i] = seq[j] => i = j

\* the ids of the set ids appear in the final order in the order of their
\* first occurrences in the request
RequestedOrderKept(ids) ==
    \A a, b \in ids :
        FirstOccurrence(body.frameIds, a) < FirstOccurrence(body.frameIds, b)
            => FirstOccurrence(finalFrameIds, a) < FirstOccurrence(finalFrameIds, b)

\* the final order is the working sequence with every id kept at its first
\* occurrence only
FirstOccurrencesOfWorkingSequence ==
    /\ NoDuplicates(finalFrameIds)
    /\ Range(finalFrameIds) = Range(WorkingSequence)
    /\ \A i, j \in 1..Len(finalFrameIds) :
          i < j => FirstOccurrence(WorkingSequence, finalFrameIds[i])
                     < FirstOccurrence(WorkingSequence, finalFrameIds[j])

EveryRequestedIdOnce ==
    \A r \in Range(body.frameIds) :
        Cardinality({ i \in 1..Len(finalFrameIds) : finalFrameIds[i] = r }) = 1

RequestedCoverOnceAndFirst ==
    (Located(COVER_FRAME_NAME)
        /\ FirstNamed(COVER_FRAME_NAME) \in Range(body.frameIds))
    => /\ finalFrameIds[1] = FirstNamed(COVER_FRAME_NAME)
       /\ \A i \in 2..Len(finalFrameIds) :
             finalFrameIds[i] # FirstNamed(COVER_FRAME_NAME)

\* C7 as stated: the final export order is [cover?] ++ [toc?] ++ requested
\* ++ [back?] with every id kept at its first occurrence only; it has no
\* duplicates, holds every requested id exactly once, keeps the relative
\* order of all distinct requested ids, and a requested cover id appears
\* once, at the first position.
C7_AllRequestedIdsKeepTheirOrder ==
    Assembled =>
        /\ FirstOccurrencesOfWorkingSequence
        /\ EveryRequestedIdOnce
        /\ RequestedOrderKept(Range(body.frameIds))
        /\ RequestedCoverOnceAndFirst

\* C7 amended: the final export order is [cover?] ++ [toc?] ++ requested ++
\* [back?] with every id kept at its first occurrence only; it has no
\* duplicates, holds every requested id exactly once, keeps the relative
\* order of the distinct requested ids other than the located cover and
\* table-of-contents ids (which stand at the front), and a requested cover
\* id appears once, at the first position.
C7_FinalOrderIsWorkingSequenceDeduplicated ==
    Assembled =>
        /\ FirstOccurrencesOfWorkingSequence
        /\ EveryRequestedIdOnce
        /\ RequestedOrderKept(Range(body.frameIds)
               \ Range(Slot(COVER_FRAME_NAME) \o Slot(TOC_FRAME_NAME)))
        /\ RequestedCoverOnceAndFirst

\* the request names a product frame and then the cover frame again, and the
\* cover stays at the first position of the final order only
C7_Witness ==
    /\ Assembled
    /\ Located(COVER_FRAME_NAME)
    /\ Len(body.frameIds) = 2
    /\ body.frameIds[2] = FirstNamed(COVER_FRAME_NAME)
    /\ body.frameIds[1] # FirstNamed(COVER_FRAME_NAME)
    /\ finalFrameIds = <<body.frameIds[2], body.frameIds[1]>>

\* C8: a special frame (cover, table of contents, back cover) is the first
\* extracted frame whose trimmed name equals the special name; when there
\* is none its slot is left out of the final order, which then holds the
\* requested ids and the located special ids only, and the request is not
\* rejected for it.
C8_SpecialFrameIsFirstTrimmedMatchOrOmitted ==
    Assembled =>
        /\ Range(finalFrameIds) =
              Range(body.frameIds) \cup Range(Slot(COVER_FRAME_NAME))
                  \cup Range(Slot(TOC_FRAME_NAME)) \cup Range(Slot(BACK_FRAME_NAME))
        /\ \A name \in {COVER_FRAME_NAME, TOC_FRAME_NAME, BACK_FRAME_NAME} :
              \A i \in PositionsNamed(name) :
                 (frames[i].id \in Range(finalFrameIds)
                     /\ frames[i].id \notin Range(body.frameIds))
                 => frames[i].id = FirstNamed(name)
        /\ Located(COVER_FRAME_NAME)
              => finalFrameIds[1] = FirstNamed(COVER_FRAME_NAME)
        /\ (Located(BACK_FRAME_NAME)
              /\ FirstNamed(BACK_FRAME_NAME) \notin Range(body.frameIds)
              /\ FirstNamed(BACK_FRAME_NAME) \notin
                    Range(Slot(COVER_FRAME_NAME) \o Slot(TOC_FRAME_NAME)))
              => finalFrameIds[Len(finalFrameIds)] = FirstNamed(BACK_FRAME_NAME)
        /\ response.status # 400
        /\ pc = "fetchPdfUrls" => response = NoResponse

\* neither cover nor table of contents exists, two frames carry the name of
\* the back cover, the request is [x, y]: the final order is [x, y, first
\* back cover] and the handler goes on to ask for the PDF URLs
C8_Witness ==
    /\ Assembled
    /\ ~Located(COVER_FRAME_NAME)
    /\ ~Located(TOC_FRAME_NAME)
    /\ Cardinality(PositionsNamed(BACK_FRAME_NAME)) = 2
    /\ Len(body.frameIds) = 2
    /\ body.frameIds[1] # body.frameIds[2]
    /\ finalFrameIds = body.frameIds \o <<FirstNamed(BACK_FRAME_NAME)>>
    /\ pc = "fetchPdfUrls"
    /\ response = NoResponse

\* C9: all downloads of the final order are in flight together; the merge
\* step starts only when each of them has completed, and whatever the
\* order of completion the i-th buffer it consumes is the download of the
\* URL of the i-th id of the final order.
C9_MergeConsumesDownloadsInFinalOrder ==
    /\ pc = "downloading" =>
          /\ Len(downloads) = Len(finalFrameIds)
          /\ Len(pdfUrls) = Len(finalFrameIds)
          /\ \A i \in 1..Len(downloads) :
                downloads[i] = "done" => pdfBuffers[i] = PdfOf(UrlOf(finalFrameIds[i]))
    /\ (pc = "merging" \/ merged # << >>) =>
          /\ Len(pdfBuffers) = Len(finalFrameIds)
          /\ \A i \in 1..Len(finalFrameIds) :
                /\ downloads[i] = "done"
                /\ pdfBuffers[i] = PdfOf(UrlOf(finalFrameIds[i]))
    /\ merged # << >> =>
          /\ Len(merged) = Len(finalFrameIds)
          /\ \A i \in 1..Len(finalFrameIds) : merged[i].pdf = finalFrameIds[i]
          /\ response = [status |-> 200, pdf |-> merged]

\* the downloads completed in the reverse of the final order, and the merged
\* document was sent
C9_Witness ==
    /\ pc = "done"
    /\ response.status = 200
    /\ Len(finalFrameIds) >= 2
    /\ merged # << >>
    /\ \A i \in 1..Len(completed) : completed[i] = Len(completed) + 1 - i


-----------------------------------------------------------------------------
(* Properties of getFrames and walkNodes.                                  *)

\* the position of node n in a sequence of nodes that holds it
PlaceIn(seq, n) == CHOOSE i \in 1..Len(seq) : seq[i] = n

NoPageOfTargetName ==
    \A p \in 1..Len(fileJson) : ~IsTargetPage(p)

\* frames is the FRAME nodes of the whole document: each of them once, each
\* entry with the id and name of its node and a reference to that node,
\* in the order the walk from the document root visits them
FullScan ==
    /\ \A n \in 1..Len(fileJson) :
          fileJson[n].type = "FRAME" =>
              Cardinality({ k \in 1..Len(frames) : frames[k].node = n }) = 1
    /\ \A k \in 1..Len(frames) :
          /\ frames[k].node \in 1..Len(fileJson)
          /\ fileJson[frames[k].node].type = "FRAME"
          /\ frames[k].id = fileJson[frames[k].node].id
          /\ frames[k].name = fileJson[frames[k].node].name
    /\ \A k, l \in 1..Len(frames) :
          k < l => PlaceIn(WalkNodes(fileJson, 1), frames[k].node)
                     < PlaceIn(WalkNodes(fileJson, 1), frames[l].node)

\* C11: with a target page configured and no page of that name in the
\* document, getFrames returns (the handler goes on to its answer) and the
\* frames are those of the full scan of the document.
C11_MissingPageFallsBackToFullScan ==
    (/\ pc = "done"
     /\ fileJson # << >>
     /\ targetPage # ""
     /\ NoPageOfTargetName) =>
        /\ response.status = 200
        /\ FullScan

\* target page "Q", two pages named otherwise, a frame in each
C11_Witness ==
    /\ Answered
    /\ targetPage = "Q"
    /\ NoPageOfTargetName
    /\ Len(fileJson[1].children) = 2
    /\ Len(frames) = 2
    /\ InSubtree(fileJson, fileJson[1].children[1], frames[1].node)
    /\ InSubtree(fileJson, fileJson[1].children[2], frames[2].node)

\* C12: with no target page, getFrames returns every FRAME node of the
\* document, frames nested in frames included, in the pre-order of the
\* walk, each with a reference to its own node.
C12_UnscopedScanReturnsEveryFrame ==
    (pc \in {"framesReturned", "patchesReturned"} /\ targetPage = "") => FullScan

\* a frame nested in a frame of the second page of the document
C12_Witness ==
    /\ pc = "framesReturned"
    /\ targetPage = ""
    /\ Len(frames) = 2
    /\ frames[2].node \in Range(fileJson[frames[1].node].children)
    /\ Len(fileJson[1].children) = 2
    /\ frames[1].node \in Range(fileJson[fileJson[1].children[2]].children)

\* C13: walkNodes calls back once for every node of the tree below its
\* root, a node before its descendants, the subtrees of the children of a
\* node one after the other in the order of the child list, and returns;
\* with a null root it does not call back.
C13_WalkIsPreOrderExactlyOnce ==
    pc # "idle" /\ pc # "done" =>
        IF root = NullNode THEN visited = << >>
        ELSE /\ Range(visited) = { n \in 1..Len(fileJson) : InSubtree(fileJson, root, n) }
             /\ \A i, j \in 1..Len(visited) : visited[i] = visited[j] => i = j
             /\ \A i, j \in 1..Len(visited) :
                   (i # j /\ InSubtree(fileJson, visited[i], visited[j])) => i < j
             /\ \A i \in 1..Len(visited) :
                   LET kids == fileJson[visited[i]].children
                   IN \A a, b \in 1..Len(kids) :
                         a < b =>
                            \A m, n \in 1..Len(visited) :
                               (/\ InSubtree(fileJson, kids[a], visited[m])
                                /\ InSubtree(fileJson, kids[b], visited[n])) => m < n

\* a walk from the document root over a tree whose second page was given
\* its child after the first page had two: the callback sequence is not
\* the order of the node ids
C13_Witness ==
    /\ pc = "walked"
    /\ root = 1
    /\ Len(visited) = MaxNodes + 1
    /\ Len(fileJson[1].children) = 2
    /\ \E i \in 1..Len(visited) : visited[i] # i


-----------------------------------------------------------------------------
(* C14: a frame whose trimmed name has no record contributes no patch     *)
(* (none for the mapped TEXT nodes of its subtree that lie in no matched   *)
(* frame) and no id to matchedFrameIds, and the frames after it in the     *)
(* input are reconciled all the same.                                      *)
C14_UnmatchedFrameContributesNothing ==
    Answered =>
        \A k \in 1..Len(frames) :
            ~MatchesRecord(frames[k]) =>
                /\ \A i \in 1..Len(matchedFrameIds) : matchedFrameIds[i] # frames[k].id
                /\ \A n \in 1..Len(fileJson) :
                      (/\ InSubtree(fileJson, frames[k].node, n)
                       /\ \A l \in 1..Len(frames) :
                             MatchesRecord(frames[l])
                                 => ~InSubtree(fileJson, frames[l].node, n))
                      => \A i \in 1..Len(patches) : patches[i].nodeId # fileJson[n].id
                /\ \A l \in (k + 1)..Len(frames) :
                      MatchesRecord(frames[l]) =>
                          /\ \E i \in 1..Len(matchedFrameIds) :
                                matchedFrameIds[i] = frames[l].id
                          /\ \A n \in 1..Len(fileJson) :
                                Patchable(l, n) => PatchFor(l, n) \in Range(patches)

-----------------------------------------------------------------------------
(* C16: walkNodes, getFrames and buildNodePatches leave what they are      *)
(* given as it was: no call changes the document tree or the record        *)
(* mapping, and buildNodePatches does not change the frames it is given.   *)
C16_CallsLeaveInputsUnchanged ==
    [][ /\ fileJson' = fileJson
        /\ sheetMap' = sheetMap
        /\ rows' = rows
        /\ pc = "framesReturned" => frames' = frames ]_vars

\* the three calls were made on a document and a mapping that give patches
\* and two matched frames
C16_Witness ==
    /\ pc = "patchesReturned"
    /\ visited # << >>
    /\ Len(frames) >= 2
    /\ Len(matchedFrameIds) >= 2
    /\ patches # << >>


-----------------------------------------------------------------------------
(* C17: when a collaborator call of a request fails (getSheetMap,          *)
(* fetchFigmaFile, fetchPdfUrlsFromFigma, also for an id without URL, one  *)
(* download, mergePdfBuffers) the request ends with one response, status   *)
(* 500 and a message, that carries no patch list and no PDF; a success     *)
(* response is sent only when the last call of the handler resolved;       *)
(* after the response nothing more happens: no second response, no retry.  *)

\* the awaits of the two handlers
CollaboratorCalls ==
    { "getSheetMap", "fetchFigmaFile", "exportFetchFigmaFile", "fetchPdfUrls",
      "downloading", "merging" }

C17_FailureGivesOneErrorResponse ==
    [][ /\ response # NoResponse => (response' = response /\ pc' = pc)
        /\ (pc \in CollaboratorCalls /\ pc' = "done") =>
              \/ /\ response' = [status |-> 500, message |-> pc]
                 /\ merged' = << >>
              \/ /\ response'.status = 200
                 /\ pc \in {"fetchFigmaFile", "merging"}
                 /\ pc = "fetchFigmaFile" => fileJson' # << >>
                 /\ pc = "merging" =>
                       /\ \A i \in 1..Len(downloads) : downloads[i] = "done"
                       /\ Len(merged') = Len(finalFrameIds)
        /\ (pc' = "done") = (response' # NoResponse) ]_vars

\* of three downloads one completed, then another failed: the request ended
\* with the 500 response while a download was still pending
C17_Witness ==
    /\ pc = "done"
    /\ response = [status |-> 500, message |-> "downloading"]
    /\ Len(downloads) = 3
    /\ \E i, j \in 1..Len(downloads) :
          downloads[i] = "done" /\ downloads[j] = "pending"
    /\ merged = << >>


-----------------------------------------------------------------------------
(* C18: when two rows have the same trimmed product name, the mapping of   *)
(* getSheetMap holds one record for that name, with the field values of    *)
(* the later row, and the patches of a frame of that name carry the later  *)
(* row's values.                                                           *)

\* the row yields a record
RecordRow(row) == Len(row) >= 2 /\ Trim(row[2]) # ""

\* the record getSheetMap makes of a row
RecordOfRow(row) ==
    [company        |-> IF Len(row) >= 1 THEN row[1] ELSE "",
     productName    |-> Trim(row[2]),
     shippingFee    |-> IF Len(row) >= 3 THEN row[3] ELSE "",
     supplyPriceVat |-> IF Len(row) >= 4 THEN row[4] ELSE "",
     groupPrice     |-> IF Len(row) >= 5 THEN row[5] ELSE "",
     onlinePrice    |-> IF Len(row) >= 6 THEN row[6] ELSE ""]

\* row j is the last row of its trimmed name, and an earlier row has it too
LaterOfTwo(j) ==
    /\ RecordRow(rows[j])
    /\ \E i \in 1..(j - 1) :
          RecordRow(rows[i]) /\ Trim(rows[i][2]) = Trim(rows[j][2])
    /\ \A h \in (j + 1)..Len(rows) :
          RecordRow(rows[h]) => Trim(rows[h][2]) # Trim(rows[j][2])

C18_LaterRowOverwrites ==
    pc \in {"fetchFigmaFile", "done"} =>
        \A j \in 1..Len(rows) :
            LaterOfTwo(j) =>
                /\ Cardinality({ i \in 1..Len(sheetMap) :
                                   sheetMap[i].key = Trim(rows[j][2]) }) = 1
                /\ \A i \in 1..Len(sheetMap) :
                      sheetMap[i].key = Trim(rows[j][2])
                          => sheetMap[i].value = RecordOfRow(rows[j])
                /\ \A i \in 1..Len(patches) :
                      patches[i].frameName = Trim(rows[j][2])
                          => patches[i].newText
                               = RecordOfRow(rows[j])[FIELD_MAP[patches[i].layerName]]

\* rows ["", "A"] and then ["co", "A ", "4,000"]: one record A with company
\* co, and the text of frame "A " is patched to 4,000
C18_Witness ==
    /\ Answered
    /\ rows = << <<"", "A">>, <<"co", "A ", "4,000">> >>
    /\ Len(sheetMap) = 1
    /\ sheetMap[1].value.company = "co"
    /\ Len(patches) = 1
    /\ patches[1].newText = "4,000"


-----------------------------------------------------------------------------
(* C19: FIGMA_TARGET_PAGE is optional: when it is not set, loading the     *)
(* configuration raises no error and getFrames scans the whole document.   *)
C19_TargetPageIsOptional ==
    env["FIGMA_TARGET_PAGE"] = "" =>
        /\ pc # "configError"
        /\ Answered => FullScan


-----------------------------------------------------------------------------
(* C20: whenever the back-cover frame is located its id is the last        *)
(* element of the final export order, and whenever the cover frame is      *)
(* located its id is the first, for every request, also one that holds     *)
(* the back-cover or the cover id.                                         *)
C20_CoverFirstBackLast ==
    Assembled =>
        /\ Located(COVER_FRAME_NAME)
              => finalFrameIds[1] = FirstNamed(COVER_FRAME_NAME)
        /\ Located(BACK_FRAME_NAME)
              => finalFrameIds[Len(finalFrameIds)] = FirstNamed(BACK_FRAME_NAME)

-----------------------------------------------------------------------------
(* Properties of the plugin (specification SpecPlugin).                    *)

DonePositions == { j \in 1..Len(posted) : posted[j].type = "done" }

\* the patches whose turn is over: all taken up, but the one being awaited
Completed ==
    IF pc = "loadFontAsync" THEN 1..(Len(applied) - 1) ELSE 1..Len(applied)

NeverWritable(patch) ==
    \/ patch.nodeId \notin DOMAIN LiveDocument
    \/ LiveDocument[patch.nodeId].type # "TEXT"

ErrorsRecorded(error) ==
    { j \in 1..Len(plugin.failedPatches) : plugin.failedPatches[j].error = error }

LastPatchOf(id) ==
    LET js == { j \in 1..Len(msg.patches) : msg.patches[j].nodeId = id }
    IN CHOOSE j \in js : \A k \in js : k <= j

\* C21: the plugin takes up the patches of a non-empty list one at a time
\* in list order; a patch whose node is missing, whose node is no TEXT node
\* or whose write throws is counted and recorded as failed and the patches
\* after it are still taken up; nothing is posted as 'done' while patches
\* remain, and once the handler has returned exactly one 'done' message has
\* been posted, as the last message, with success + failed equal to the
\* number of patches.  A node's text is only ever the text of a patch for
\* that node, and the text of the last such patch when none failed.  For an
\* empty list no patch is taken up, no node is changed and no 'done' is
\* posted.
C21_PatchesAppliedInOrderThenOneDone ==
    LET n == Len(msg.patches) IN
    /\ \A j \in 1..Len(applied) : applied[j] = j
    /\ Len(applied) <= n
    /\ Len(plugin.failedPatches) = plugin.failedCount
    /\ plugin.successCount + plugin.failedCount = Cardinality(Completed)
    /\ Cardinality({ j \in Completed : NeverWritable(msg.patches[j]) })
         = Cardinality(ErrorsRecorded("not found") \cup ErrorsRecorded("not TEXT"))
    /\ \A j \in 1..Len(plugin.failedPatches) :
           \E k \in Completed : msg.patches[k] = plugin.failedPatches[j].patch
    /\ \A id \in DOMAIN characters :
           \/ characters[id] = LiveCharacters[id]
           \/ \E k \in Completed : /\ msg.patches[k].nodeId = id
                                   /\ msg.patches[k].newText = characters[id]
    /\ plugin.successCount = 0 => characters = LiveCharacters
    /\ pc = "loadFontAsync" =>
           /\ plugin.i = Len(applied)
           /\ ~NeverWritable(msg.patches[plugin.i])
           /\ DonePositions = {}
    /\ (pc = "returned" /\ msg.type = "apply-patches" /\ n > 0) =>
           /\ Len(applied) = n
           /\ DonePositions = {Len(posted)}
           /\ posted[Len(posted)].success = plugin.successCount
           /\ posted[Len(posted)].failed = plugin.failedCount
           /\ posted[Len(posted)].success + posted[Len(posted)].failed = n
           /\ plugin.failedCount = 0 =>
                  \A id \in DOMAIN characters :
                      (\E k \in 1..n : msg.patches[k].nodeId = id) =>
                          characters[id] = msg.patches[LastPatchOf(id)].newText
    /\ (pc = "returned" /\ msg.type = "apply-patches" /\ n = 0) =>
           /\ applied = << >>
           /\ characters = LiveCharacters
           /\ DonePositions = {}
           /\ posted = <<Log("error")>>
    /\ pc = "idle" => posted = << >> /\ characters = LiveCharacters

\* the first patch names no node, the next two are written to node 1 one
\* after the other, and the handler has returned
C21_Witness ==
    /\ pc = "returned"
    /\ msg.patches = <<PluginPatch(4, "a"), PluginPatch(1, "a"), PluginPatch(1, "b")>>
    /\ applied = <<1, 2, 3>>
    /\ plugin.successCount = 2
    /\ plugin.failedCount = 1
    /\ characters[1] = "b"
    /\ posted[Len(posted)] = [type |-> "done", success |-> 2, failed |-> 1]

-----------------------------------------------------------------------------
(* Properties of the validation of POST /figma-export-pdf (SpecExport).    *)

ValidRequest == body.isArray /\ Len(body.frameIds) > 0

ExportStarted ==
    \/ pc \in {"exportFetchFigmaFile", "fetchPdfUrls", "downloading", "merging"}
    \/ fileJson # << >>
    \/ frames # << >>
    \/ finalFrameIds # << >>
    \/ pdfUrls # << >>
    \/ downloads # << >>
    \/ completed # << >>
    \/ pdfBuffers # << >>
    \/ merged # << >>

\* C22: a request whose frameIds is missing, is no list or is the empty
\* list is answered 400 and nothing of the export (document fetch, final
\* order, render URLs, downloads, merge) was started for it; whatever
\* was started, and every 200 answer, belongs to a request with a non-empty
\* list, so no document of only cover, table of contents and back cover is
\* made for an empty list.
C22_InvalidFrameIdsRejectedBeforeAnyWork ==
    /\ (pc # "idle" /\ ~ValidRequest) =>
           /\ pc = "done"
           /\ response = [status |-> 400]
           /\ ~ExportStarted
    /\ ExportStarted => ValidRequest
    /\ response.status = 200 => ValidRequest
    /\ response.status = 400 => ~ValidRequest /\ pc = "done"

\* the empty list was requested and refused
C22_Witness ==
    /\ pc = "done"
    /\ body = [isArray |-> TRUE, frameIds |-> << >>]
    /\ response = [status |-> 400]
    /\ ~ExportStarted

-----------------------------------------------------------------------------
(* Ranks of the matched frames (specification Spec).                       *)

\* the rank buildNodePatches stores for the matched frame of this id
SheetIndexOf(id) ==
    SheetIndex(SheetOrderMap(sheetMap), Trim(frames[FramePosition(id)].name))

\* C23: the record keys being trimmed, every frame of matchedFrameIds has a
\* rank in 0..(number of records - 1), never the "sorts last" sentinel, and
\* that rank is the place, among the record keys, of the record named by
\* the frame's trimmed name, the one its patches were built from.
C23_MatchedFrameRankIsItsRecordRank ==
    Answered =>
        \A i \in 1..Len(matchedFrameIds) :
            LET rank == SheetIndexOf(matchedFrameIds[i])
                name == Trim(frames[FramePosition(matchedFrameIds[i])].name)
            IN /\ rank \in 0..(Len(ObjectKeys(sheetMap)) - 1)
               /\ rank # MAX_SAFE_INTEGER
               /\ ObjectKeys(sheetMap)[rank + 1] = name

-----------------------------------------------------------------------------
(* Records of getSheetMap (specification SpecSheet).                       *)

SheetLoaded == pc \in {"fetchFigmaFile", "done"} /\ response.status # 500

\* the rows getSheetMap makes a record of
RecordRows ==
    { j \in 1..Len(rows) : Len(rows[j]) >= 2 /\ Trim(rows[j][2]) # "" }

MappedFields == { FIELD_MAP[l] : l \in DOMAIN FIELD_MAP }

\* the column of the sheet range A2:F a field is read from
FieldColumn ==
    [productName |-> 2, shippingFee |-> 3, supplyPriceVat |-> 4,
     groupPrice |-> 5, onlinePrice |-> 6]

RecordNamed(key) ==
    sheetMap[CHOOSE i \in 1..Len(sheetMap) : sheetMap[i].key = key].value

\* C24: every record of getSheetMap has a key that is not empty and is
\* trimmed, and a string for each of the five fields FIELD_MAP names (the
\* empty string for a missing cell); the record keys are the trimmed names
\* of the rows with at least two cells and a name that is not blank, so a
\* shorter row or a row with a blank name gives no record; and in the
\* answer every TEXT node with a name of FIELD_MAP inside a frame whose
\* trimmed name is a record key has its patch.
C24_RecordsDefineEveryMappedField ==
    SheetLoaded =>
        /\ \A i \in 1..Len(sheetMap) :
              /\ sheetMap[i].key # ""
              /\ Trim(sheetMap[i].key) = sheetMap[i].key
              /\ MappedFields \subseteq DOMAIN sheetMap[i].value
              /\ \A f \in MappedFields : sheetMap[i].value[f] \in STRING
        /\ { sheetMap[i].key : i \in 1..Len(sheetMap) }
             = { Trim(rows[j][2]) : j \in RecordRows }
        /\ \A j \in RecordRows :
              (\A k \in RecordRows : Trim(rows[k][2]) = Trim(rows[j][2]) => k <= j) =>
                  \A f \in MappedFields \ {"productName"} :
                      RecordNamed(Trim(rows[j][2]))[f] =
                          IF FieldColumn[f] <= Len(rows[j])
                          THEN rows[j][FieldColumn[f]]
                          ELSE ""
        /\ Answered =>
              \A k \in 1..Len(frames) : \A n \in 1..Len(fileJson) :
                  ( /\ MatchesRecord(frames[k])
                    /\ fileJson[n].type = "TEXT"
                    /\ InSubtree(fileJson, frames[k].node, n)
                    /\ fileJson[n].name \in DOMAIN FIELD_MAP )
                  => PatchFor(k, n) \in Range(patches)

\* a row of one cell and a row with a blank name gave no record, the row
\* <<"", "A">> gave record A with the empty string for its missing cells,
\* and the #shipping_fee leaf of frame "A " was patched with that string
C24_Witness ==
    /\ Answered
    /\ rows = << <<"co">>, <<"co", " ">>, <<"", "A">> >>
    /\ Len(sheetMap) = 1
    /\ sheetMap[1].key = "A"
    /\ sheetMap[1].value.shippingFee = ""
    /\ fileJson = FrameAWithText
    /\ Len(patches) = 1
    /\ patches[1].newText = ""

-----------------------------------------------------------------------------
(* Ranks of repeated names (specification SpecSheet).                      *)

NameOfRow(j) == Trim(rows[j][2])

\* the row at which the name of row j occurs first
FirstRowOf(j) ==
    CHOOSE k \in RecordRows :
        /\ NameOfRow(k) = NameOfRow(j)
        /\ \A l \in RecordRows : NameOfRow(l) = NameOfRow(j) => k <= l

SomeNameRepeated ==
    \E j \in RecordRows : \E k \in RecordRows : j # k /\ NameOfRow(j) = NameOfRow(k)

\* C25: when rows share a trimmed name, the rank of every name is the
\* number of distinct names that occur first before it does: a repeated
\* name keeps the place of its first row, and the ranks are the consecutive
\* integers from 0 in first-occurrence order.
C25_RepeatedNameKeepsFirstPlace ==
    (SheetLoaded /\ SomeNameRepeated) =>
        \A j \in RecordRows :
            SheetIndex(SheetOrderMap(sheetMap), NameOfRow(j)) =
                Cardinality({ NameOfRow(k) : k \in { l \in RecordRows : l < FirstRowOf(j) } })

-----------------------------------------------------------------------------
(* The two revisions of buildNodePatches (specification Spec).             *)

\* C26: the patch sequence the later revision of buildNodePatches returned
\* for the frames and records of a request is the sequence the earlier
\* revision returns for the same frames and records: the same patches in
\* the same order, whatever order matchedFrameIds has.
C26_LaterRevisionEmitsTheEarlierPatches ==
    Answered => patches = EarlierBuildNodePatches(fileJson, frames, sheetMap)

\* two frames were patched in frame order while matchedFrameIds lists them
\* the other way round
C26_Witness ==
    /\ Answered
    /\ Len(frames) = 2
    /\ matchedFrameIds = <<frames[2].id, frames[1].id>>
    /\ Len(patches) = 2
    /\ patches[1].frameName = Trim(frames[1].name)
    /\ patches[2].frameName = Trim(frames[2].name)
    /\ patches = EarlierBuildNodePatches(fileJson, frames, sheetMap)

====
